---- MODULE Spec2Model ----
(***************************************************************************)
(* Model of src/webui.py: the WebUI session controller (agent handle,      *)
(* is_processing flag, language), the respond wrapper that drives          *)
(* process_message on a private event loop in a worker thread, the         *)
(* presentation layer's chatbot/textbox outputs, and main's shutdown.      *)
(*                                                                         *)
(* Each respond call runs in its own worker thread with its own event      *)
(* loop (webui.py:286-293), so calls interleave at the granularity of      *)
(* their accesses to the shared WebUI object; the steps below are cut at   *)
(* those accesses and at the awaits: the test of is_processing (line 148)  *)
(* and its assignment (line 153) are separate statements with no lock      *)
(* between them.  The history list of a call is private to the call.       *)
(*                                                                         *)
(* Texts are sequences of tokens <<"lit", s>> / <<"slot", name>>; the      *)
(* non-ASCII literals of TRANSLATIONS are written in ASCII.  The language  *)
(* is the one main() was started with.                                     *)
(***************************************************************************)
EXTENDS Naturals, Sequences, FiniteSets

VARIABLES
    agent,          \* WebUI.agent: 0 is None, h >= 1 is the h-th handle Manus.create() returned
    is_processing,  \* WebUI.is_processing
    language,       \* WebUI.language
    created,        \* number of handles Manus.create() has returned
    teardowns,      \* handles whose cleanup() has been called, in call order
    chatbot,        \* value of the Chatbot component (the displayed history)
    msgbox,         \* value of the Textbox component
    main_pc,        \* position of main(): "serving", "finally", "exited"
    launch_result,  \* how demo.launch() ended: "none", "returned", "KeyboardInterrupt", "raised"
    pc,             \* position of each respond call
    message,        \* the message argument of each call
    history,        \* the history list object of each call
    prior,          \* the history argument as it was when the call was made
    results,        \* the results list of async_to_sync_generator of each call
    emitted,        \* what respond has yielded to the presentation layer, per call
    outcome,        \* which path the call took
    invoked,        \* which collaborator operations the call has invoked
    run_value       \* what the agent's run returned or raised in the call

vars == <<agent, is_processing, language, created, teardowns, chatbot, msgbox,
          main_pc, launch_result, pc, message, history, prior, results,
          emitted, outcome, invoked, run_value>>

shared == <<agent, is_processing, language, created, teardowns>>
mainvars == <<main_pc, launch_result>>

(***************************************************************************)
(* Bounds and input sets                                                   *)
(***************************************************************************)
MaxTurns == 1               \* longest history a submit is made from

\* The event listeners bound to respond (msg.submit, submit_btn.click): a call
\* made through one may overlap a call made through the other.
Calls == {"submit", "click"}
Whitespace == {" ", "\n"}
Messages == {<<>>, <<" ">>, <<"a">>}
RunResults == {"", "r"}
ErrorMessages == {"boom"}
ExceptionClasses == {"Exception", "BaseException"}
Languages == {"ja", "en"}

NoException == [cls |-> "none", msg |-> ""]
Exceptions == [cls : ExceptionClasses, msg : ErrorMessages]

(***************************************************************************)
(* Translation table and get_text                                          *)
(***************************************************************************)
Lit(s) == <<"lit", s>>
Slot(k) == <<"slot", k>>

TRANSLATIONS ==
    [ja |-> [processing |-> <<Lit("ja: request wo shori-chuu...")>>,
             completed |-> <<Lit("ja: task kanryou!\n\n"), Slot("result")>>,
             completed_simple |-> <<Lit("ja: task ga seijou ni kanryou shimashita!")>>,
             error |-> <<Lit("ja: error: "), Slot("error")>>,
             already_processing |-> <<Lit("ja: sude ni request wo shori-chuu desu. omachi kudasai...")>>],
     en |-> [processing |-> <<Lit("Processing your request...")>>,
             completed |-> <<Lit("Task completed!\n\n"), Slot("result")>>,
             completed_simple |-> <<Lit("Task completed successfully!")>>,
             error |-> <<Lit("Error: "), Slot("error")>>,
             already_processing |-> <<Lit("Already processing a request. Please wait...")>>]]

\* str.format(**kwargs): every named slot is replaced by the value given for it
Format(text, kwargs) ==
    [i \in DOMAIN text |->
        IF text[i][1] = "slot" /\ text[i][2] \in DOMAIN kwargs
        THEN Lit(kwargs[text[i][2]])
        ELSE text[i]]

NoKwargs == <<>>

get_text(lang, key, kwargs) ==
    LET text == IF key \in DOMAIN TRANSLATIONS[lang]
                THEN TRANSLATIONS[lang][key]
                ELSE <<Lit(key)>>
    IN  IF DOMAIN kwargs # {} THEN Format(text, kwargs) ELSE text

(***************************************************************************)
(* Pure pieces of process_message                                          *)
(***************************************************************************)
RECURSIVE LStrip(_)
LStrip(s) == IF s # <<>> /\ Head(s) \in Whitespace THEN LStrip(Tail(s)) ELSE s

RECURSIVE RStrip(_)
RStrip(s) ==
    IF s # <<>> /\ s[Len(s)] \in Whitespace THEN RStrip(SubSeq(s, 1, Len(s) - 1)) ELSE s

\* str.strip()
Strip(s) == RStrip(LStrip(s))

IsEmptyNoStrip(m) == m = <<>>
\* `not message.strip()`
IsEmptyMessage(m) == Strip(m) = <<>>

Turn(m, response) == <<m, response>>

BusyOutputInPlace(h, m, lang) == h
\* `history + [(message, self.get_text("already_processing"))]`
BusyOutput(h, m, lang) ==
    h \o <<Turn(m, get_text(lang, "already_processing", NoKwargs))>>

\* `history.append((message, self.get_text("processing")))`
AppendProcessing(h, m, lang) ==
    Append(h, Turn(m, get_text(lang, "processing", NoKwargs)))

ReplaceLast(h, t) == [h EXCEPT ![Len(h)] = t]

ResponseIfNotNone(result, lang) == get_text(lang, "completed", [result |-> result])
\* lines 167-170: truthiness of the result picks the notice
Response(result, lang) ==
    IF result # ""
    THEN get_text(lang, "completed", [result |-> result])
    ELSE get_text(lang, "completed_simple", NoKwargs)

ExceptHandlerAppend(h, m, e, lang) ==
    Append(h, Turn(m, get_text(lang, "error", [error |-> e.msg])))
\* lines 175-180: the body of `except Exception as e`
ExceptHandler(h, m, e, lang) ==
    LET error_msg == get_text(lang, "error", [error |-> e.msg])
    IN  IF h # <<>> /\ h[Len(h)][1] = m
        THEN ReplaceLast(h, Turn(m, error_msg))
        ELSE Append(h, Turn(m, error_msg))

\* `except Exception` catches the exception iff it derives from Exception
Caught(e) == e.cls = "Exception"

ClearOnlyOnNormalExit(flag, e) == IF e = NoException THEN FALSE ELSE flag
\* lines 182-183: the value `finally` leaves in is_processing
FinallyFlag(flag, e) == FALSE

\* An item of the results list: the history list object itself, or a new list
Ref == [ref |-> TRUE, val |-> <<>>]
Val(h) == [ref |-> FALSE, val |-> h]
Deref(item, h) == IF item.ref THEN h ELSE item.val

CleanupKeepsHandle(a, td) == [agent |-> a, teardowns |-> IF a # 0 THEN Append(td, a) ELSE td]
\* WebUI.cleanup; the handle's own cleanup() is taken to return
Cleanup(a, td) ==
    IF a # 0
    THEN [agent |-> 0, teardowns |-> Append(td, a)]
    ELSE [agent |-> a, teardowns |-> td]

\* main's `finally`: the cleanup runs however the try block ended
CleanupRuns(result) == TRUE

(***************************************************************************)
(* Initial state: WebUI.__init__, an empty Chatbot and Textbox, no call    *)
(***************************************************************************)
NoCall(f, t) == [f EXCEPT ![t] = <<>>]

Init ==
    /\ agent = 0
    /\ is_processing = FALSE
    /\ language \in Languages
    /\ created = 0
    /\ teardowns = <<>>
    /\ chatbot = <<>>
    /\ msgbox = <<>>
    /\ main_pc = "serving"
    /\ launch_result = "none"
    /\ pc = [t \in Calls |-> "idle"]
    /\ message = [t \in Calls |-> <<>>]
    /\ history = [t \in Calls |-> <<>>]
    /\ prior = [t \in Calls |-> <<>>]
    /\ results = [t \in Calls |-> <<>>]
    /\ emitted = [t \in Calls |-> <<>>]
    /\ outcome = [t \in Calls |-> "none"]
    /\ invoked = [t \in Calls |-> {}]
    /\ run_value = [t \in Calls |-> "none"]

Serving == main_pc = "serving"

(***************************************************************************)
(* Presentation layer events                                               *)
(***************************************************************************)
\* msg.submit / submit_btn.click: respond(message, chat_history) starts
Respond(t, m) ==
    /\ Serving
    /\ pc[t] = "idle"
    /\ Len(chatbot) <= MaxTurns
    /\ pc' = [pc EXCEPT ![t] = "start"]
    /\ message' = [message EXCEPT ![t] = m]
    /\ history' = [history EXCEPT ![t] = chatbot]
    /\ prior' = [prior EXCEPT ![t] = chatbot]
    /\ UNCHANGED <<shared, mainvars, chatbot, msgbox, results, emitted, outcome,
                   invoked, run_value>>

\* clear_btn.click
Clear ==
    /\ Serving
    /\ chatbot # <<>>
    /\ chatbot' = <<>>
    /\ msgbox' = <<>>
    /\ UNCHANGED <<shared, mainvars, pc, message, history, prior, results, emitted,
                   outcome, invoked, run_value>>

(***************************************************************************)
(* process_message, driven by respond's event loop.  A step runs from one  *)
(* await or access to the shared WebUI object to the next.                 *)
(***************************************************************************)
callvars == <<message, prior>>
YieldHistory(rs) == Append(rs, [item |-> Ref, echo |-> <<>>])

\* lines 144-146
EmptyInput(t) ==
    /\ Serving
    /\ pc[t] = "start"
    /\ IsEmptyMessage(message[t])
    /\ results' = [results EXCEPT ![t] = YieldHistory(@)]
    /\ outcome' = [outcome EXCEPT ![t] = "empty"]
    /\ pc' = [pc EXCEPT ![t] = "yielding"]
    /\ UNCHANGED <<shared, mainvars, chatbot, msgbox, callvars, history, emitted,
                   invoked, run_value>>

\* lines 148-150
BusyReject(t) ==
    /\ Serving
    /\ pc[t] = "start"
    /\ ~IsEmptyMessage(message[t])
    /\ is_processing
    /\ results' = [results EXCEPT ![t] =
                     <<[item |-> Val(BusyOutput(history[t], message[t], language)),
                        echo |-> <<>>]>>]
    /\ outcome' = [outcome EXCEPT ![t] = "busy"]
    /\ pc' = [pc EXCEPT ![t] = "yielding"]
    /\ UNCHANGED <<shared, mainvars, chatbot, msgbox, callvars, history, emitted,
                   invoked, run_value>>

\* line 148 read as false: the call goes on to the try block
Accept(t) ==
    /\ Serving
    /\ pc[t] = "start"
    /\ ~IsEmptyMessage(message[t])
    /\ ~is_processing
    /\ outcome' = [outcome EXCEPT ![t] = "accepted"]
    /\ pc' = [pc EXCEPT ![t] = "try"]
    /\ UNCHANGED <<shared, mainvars, chatbot, msgbox, callvars, history, results,
                   emitted, invoked, run_value>>

\* lines 159-164: the placeholder turn is appended, the list is yielded, and
\* self.agent.run(message) is called and awaited
StartRun(t) ==
    /\ history' = [history EXCEPT ![t] = AppendProcessing(@, message[t], language)]
    /\ results' = [results EXCEPT ![t] = YieldHistory(@)]
    /\ pc' = [pc EXCEPT ![t] = "running"]

\* lines 153-156, 137-139: the flag is set and initialize_agent runs up to the
\* await of Manus.create(), or, with an agent, process_message up to the await of run
EnterTry(t) ==
    /\ Serving
    /\ pc[t] = "try"
    /\ is_processing' = TRUE
    /\ IF agent = 0
       THEN /\ invoked' = [invoked EXCEPT ![t] = @ \cup {"create"}]
            /\ pc' = [pc EXCEPT ![t] = "creating"]
            /\ UNCHANGED <<history, results>>
       ELSE /\ invoked' = [invoked EXCEPT ![t] = @ \cup {"run"}]
            /\ StartRun(t)
    /\ UNCHANGED <<agent, language, created, teardowns, mainvars, chatbot, msgbox,
                   callvars, emitted, outcome, run_value>>

\* line 139: Manus.create() returns a handle, which is stored; then as above
CreateReturns(t) ==
    /\ Serving
    /\ pc[t] = "creating"
    /\ created' = created + 1
    /\ agent' = created + 1
    /\ invoked' = [invoked EXCEPT ![t] = @ \cup {"run"}]
    /\ StartRun(t)
    /\ UNCHANGED <<is_processing, language, teardowns, mainvars, chatbot, msgbox,
                   callvars, emitted, outcome, run_value>>

\* lines 174-185: the exception e leaves the try block.  Caught, the handler
\* rewrites the history and the list is yielded after `finally`; otherwise e
\* leaves process_message, async_to_sync_generator and respond after `finally`.
Raise(t, e) ==
    /\ is_processing' = FinallyFlag(is_processing, IF Caught(e) THEN NoException ELSE e)
    /\ IF Caught(e)
       THEN /\ history' = [history EXCEPT ![t] = ExceptHandler(@, message[t], e, language)]
            /\ results' = [results EXCEPT ![t] = YieldHistory(@)]
            /\ pc' = [pc EXCEPT ![t] = "yielding"]
       ELSE /\ history' = history
            /\ results' = [results EXCEPT ![t] = <<>>]
            /\ pc' = [pc EXCEPT ![t] = "raised"]

\* line 139: Manus.create() raises e
CreateRaises(t, e) ==
    /\ Serving
    /\ pc[t] = "creating"
    /\ Raise(t, e)
    /\ outcome' = [outcome EXCEPT ![t] = "init_error"]
    /\ run_value' = [run_value EXCEPT ![t] = e]
    /\ UNCHANGED <<agent, language, created, teardowns, mainvars, chatbot, msgbox,
                   callvars, emitted, invoked>>

\* lines 164-172, 182-185: run returns result
RunReturns(t, result) ==
    /\ Serving
    /\ pc[t] = "running"
    /\ history' = [history EXCEPT ![t] =
                     ReplaceLast(@, Turn(message[t], Response(result, language)))]
    /\ is_processing' = FinallyFlag(is_processing, NoException)
    /\ results' = [results EXCEPT ![t] = YieldHistory(@)]
    /\ run_value' = [run_value EXCEPT ![t] = result]
    /\ outcome' = [outcome EXCEPT ![t] = "success"]
    /\ pc' = [pc EXCEPT ![t] = "yielding"]
    /\ UNCHANGED <<agent, language, created, teardowns, mainvars, chatbot, msgbox,
                   callvars, emitted, invoked>>

\* line 164: run raises e
RunRaises(t, e) ==
    /\ Serving
    /\ pc[t] = "running"
    /\ Raise(t, e)
    /\ run_value' = [run_value EXCEPT ![t] = e]
    /\ outcome' = [outcome EXCEPT ![t] = "run_error"]
    /\ UNCHANGED <<agent, language, created, teardowns, mainvars, chatbot, msgbox,
                   callvars, emitted, invoked>>

(***************************************************************************)
(* respond: the collected results reach the presentation layer             *)
(***************************************************************************)
\* lines 290-291: the next item of the list async_to_sync_generator returned
\* is yielded to the outputs [chatbot, msg]
Emit(t) ==
    /\ Serving
    /\ pc[t] = "yielding"
    /\ Len(emitted[t]) < Len(results[t])
    /\ LET r == results[t][Len(emitted[t]) + 1]
           shown == [hist |-> Deref(r.item, history[t]), echo |-> r.echo]
       IN  /\ emitted' = [emitted EXCEPT ![t] = Append(@, shown)]
           /\ chatbot' = shown.hist
           /\ msgbox' = shown.echo
    /\ UNCHANGED <<shared, mainvars, pc, callvars, history, results, outcome,
                   invoked, run_value>>

Finished(t) ==
    \/ pc[t] = "raised"
    \/ pc[t] = "yielding" /\ Len(emitted[t]) = Len(results[t])

\* lines 292-293: respond is over; the call's objects are gone
RespondEnds(t) ==
    /\ Serving
    /\ Finished(t)
    /\ pc' = [pc EXCEPT ![t] = "idle"]
    /\ message' = NoCall(message, t)
    /\ history' = NoCall(history, t)
    /\ prior' = NoCall(prior, t)
    /\ results' = NoCall(results, t)
    /\ emitted' = NoCall(emitted, t)
    /\ outcome' = [outcome EXCEPT ![t] = "none"]
    /\ invoked' = [invoked EXCEPT ![t] = {}]
    /\ run_value' = [run_value EXCEPT ![t] = "none"]
    /\ UNCHANGED <<shared, mainvars, chatbot, msgbox>>

(***************************************************************************)
(* main: demo.launch() ends, then the finally block                        *)
(***************************************************************************)
LaunchResults == {"returned", "KeyboardInterrupt", "raised"}

\* lines 359-367: the server loop is over, by return, KeyboardInterrupt or
\* another exception; no handler is driven any further and the calls in
\* progress are abandoned with the server
LaunchEnds(result) ==
    /\ main_pc = "serving"
    /\ launch_result' = result
    /\ main_pc' = "finally"
    /\ pc' = [t \in Calls |-> "idle"]
    /\ message' = [t \in Calls |-> <<>>]
    /\ history' = [t \in Calls |-> <<>>]
    /\ prior' = [t \in Calls |-> <<>>]
    /\ results' = [t \in Calls |-> <<>>]
    /\ emitted' = [t \in Calls |-> <<>>]
    /\ outcome' = [t \in Calls |-> "none"]
    /\ invoked' = [t \in Calls |-> {}]
    /\ run_value' = [t \in Calls |-> "none"]
    /\ UNCHANGED <<shared, chatbot, msgbox>>

\* lines 368-373
MainFinally ==
    /\ main_pc = "finally"
    /\ LET after == IF CleanupRuns(launch_result)
                    THEN Cleanup(agent, teardowns)
                    ELSE [agent |-> agent, teardowns |-> teardowns]
       IN  /\ agent' = after.agent
           /\ teardowns' = after.teardowns
    /\ main_pc' = "exited"
    /\ UNCHANGED <<is_processing, language, created, launch_result, chatbot, msgbox,
                   pc, message, history, prior, results, emitted, outcome, invoked,
                   run_value>>

Next ==
    \/ \E t \in Calls, m \in Messages : Respond(t, m)
    \/ Clear
    \/ \E t \in Calls : EmptyInput(t)
    \/ \E t \in Calls : BusyReject(t)
    \/ \E t \in Calls : Accept(t)
    \/ \E t \in Calls : EnterTry(t)
    \/ \E t \in Calls : CreateReturns(t)
    \/ \E t \in Calls, e \in Exceptions : CreateRaises(t, e)
    \/ \E t \in Calls, r \in RunResults : RunReturns(t, r)
    \/ \E t \in Calls, e \in Exceptions : RunRaises(t, e)
    \/ \E t \in Calls : Emit(t)
    \/ \E t \in Calls : RespondEnds(t)
    \/ \E r \in LaunchResults : LaunchEnds(r)
    \/ MainFinally

Spec == Init /\ [][Next]_vars

(***************************************************************************)
(* Properties                                                              *)
(***************************************************************************)
Last(s) == s[Len(s)]

\* every item respond collected has reached the presentation layer
Complete(t) == pc[t] = "yielding" /\ Len(emitted[t]) = Len(results[t])

IsBlank(m) == \A i \in DOMAIN m : m[i] \in Whitespace
Contains(text, v) == \E i \in DOMAIN text : text[i] = <<"lit", v>>
Notice(key) == TRANSLATIONS[language][key]
InTry(t) == pc[t] \in {"creating", "running"}
Accepted(t) == outcome[t] \in {"success", "run_error", "init_error"}
SessionUntouched == UNCHANGED <<agent, is_processing, created, teardowns>>

\* C1: at most one invocation of the agent's run is in flight at any time.
C1_SingleFlight == Cardinality({t \in Calls : pc[t] = "running"}) <= 1

\* C2: for every accepted submit the first emission the presentation layer
\* observes ends with the turn (text, processing notice), and the final
\* emission comes after it.
C2_PlaceholderObservedFirst ==
    \A t \in Calls :
        Accepted(t) /\ Complete(t) =>
            /\ Len(emitted[t]) = 2
            /\ Last(emitted[t][1].hist) = Turn(message[t], Notice("processing"))

\* C3: while the server runs, is_processing is true only while an accepted
\* submit is between its start and its end: once every accepted submit has
\* ended (by success, by run raising, by construction raising), it is false.
C3_FlagOnlyWhileProcessing ==
    Serving /\ is_processing => \E t \in Calls : InTry(t)

C3_Witness ==
    \E t \in Calls : pc[t] = "raised" /\ ~is_processing /\ \A u \in Calls : ~InTry(u)

C4_State ==
    \A t \in Calls :
        outcome[t] = "busy" =>
            /\ invoked[t] = {}
            /\ Len(results[t]) = 1
            /\ Complete(t) =>
                 emitted[t] = <<[hist |-> prior[t] \o <<Turn(message[t], Notice("already_processing"))>>,
                                 echo |-> <<>>]>>

C4_Step ==
    \A t \in Calls :
        /\ pc[t] = "start" /\ pc'[t] # "start" /\ main_pc' = "serving"
        /\ ~IsBlank(message[t]) /\ is_processing
        => outcome'[t] = "busy" /\ SessionUntouched

\* C4: a non-empty submit made while is_processing is true yields exactly one
\* output, the given history plus the turn (text, busy notice), invokes neither
\* the factory nor run, and leaves is_processing and the agent handle unchanged.
C4_BusyRejection == []C4_State /\ [][C4_Step]_vars

C4_Witness == \E t \in Calls : outcome[t] = "busy" /\ Complete(t)

ErrorTurnFor(t) ==
    Turn(message[t], <<Notice("error")[1], <<"lit", run_value[t].msg>>>>)

C5_Converted(t) ==
    /\ pc[t] # "raised"
    /\ Complete(t) =>
         /\ Last(emitted[t]).hist = prior[t] \o <<ErrorTurnFor(t)>>
         /\ Contains(Last(Last(emitted[t]).hist)[2], run_value[t].msg)

C6_AtMostOneHandle ==
    /\ created <= Len(teardowns) + 1
    /\ \A t \in Calls : pc[t] = "creating" => agent = 0

NoDuplicates(s) == \A i, j \in DOMAIN s : s[i] = s[j] => i = j

C8_SuccessResult ==
    \A t \in Calls :
        outcome[t] = "success" /\ Complete(t) =>
            LET final == Last(emitted[t])
                response == Last(final.hist)[2]
            IN  /\ final.echo = <<>>
                /\ Len(final.hist) = Len(prior[t]) + 1
                /\ SubSeq(final.hist, 1, Len(prior[t])) = prior[t]
                /\ Last(final.hist)[1] = message[t]
                /\ IF run_value[t] # ""
                   THEN /\ response[1] = Notice("completed")[1]
                        /\ Contains(response, run_value[t])
                   ELSE response = Notice("completed_simple")

C8_Witness ==
    \E t \in Calls : outcome[t] = "success" /\ Complete(t) /\ run_value[t] = ""

C9_State ==
    \A t \in Calls :
        pc[t] \notin {"idle", "start"} /\ IsBlank(message[t]) =>
            /\ outcome[t] = "empty"
            /\ invoked[t] = {}
            /\ Len(results[t]) = 1
            /\ Complete(t) => emitted[t] = <<[hist |-> prior[t], echo |-> <<>>]>>

C9_Step ==
    \A t \in Calls :
        /\ pc[t] = "start" /\ pc'[t] # "start" /\ main_pc' = "serving"
        /\ IsBlank(message[t])
        => SessionUntouched

\* C9: a submit of empty or whitespace-only text, whatever the session state,
\* yields exactly one output, the unchanged history, invokes neither the
\* factory nor run, and changes neither is_processing nor the agent handle.
C9_EmptyInputNoOp == []C9_State /\ [][C9_Step]_vars

C9_Witness ==
    \E t \in Calls :
        outcome[t] = "empty" /\ Complete(t) /\ message[t] # <<>> /\ is_processing

\* C10: whatever the outcome of a non-empty submit, the final emitted history
\* is the prior history followed by exactly one new turn for the submitted text.
C10_PrefixPreserved ==
    \A t \in Calls :
        ~IsBlank(message[t]) /\ Complete(t) =>
            LET h == Last(emitted[t]).hist
            IN  /\ Len(h) = Len(prior[t]) + 1
                /\ SubSeq(h, 1, Len(prior[t])) = prior[t]
                /\ Last(h)[1] = message[t]

====
